---- MODULE Spec2Model ----
(***************************************************************************)
(* Browser compiler orchestrator (createBrowserCompiler) of remix-dev.     *)
(*                                                                         *)
(* Strings are sequences of tokens, so that startsWith, endsWith,          *)
(* toUpperCase, join and concatenation are computed, not assumed.          *)
(* An action is one run-to-completion segment of the JavaScript event      *)
(* loop: the synchronous part of compile up to its first await, the        *)
(* settling of one engine or file-system promise together with the         *)
(* continuations that settling makes runnable, or a call of dispose.       *)
(***************************************************************************)
EXTENDS Integers, Sequences, FiniteSets, TLC

\* Number of compile calls issued on one orchestrator.
MaxCalls == 2

Calls == 1..MaxCalls

VARIABLES
  appCompiler,   \* let appCompiler: esbuild.BuildIncremental
  cssCompiler,   \* let cssCompiler: esbuild.BuildIncremental
  live,          \* incremental sessions of the engine that are not disposed
  pc,            \* where each compile call stands
  deps,          \* Object.keys(getAppDependencies(remixConfig)) read by a call
  externals,     \* what getExternals gave the call
  appOp,         \* appBuildPromise of each call
  cssOp,         \* cssBuildPromise of each call
  manifestOp,    \* the createAssetsManifest promise of each call
  manifest,      \* the manifest object of each call (a heap cell)
  persistOp,     \* the writeFileSafe promise of each call
  channel,       \* manifestChannel: references to the manifests written
  fsWrites,      \* every completed write to disk, with the call that made it
  error,         \* what each call threw
  held,          \* the handles the orchestrator held when each call began
  reads,         \* how many manifests a consumer has read from the channel
  mode,          \* options.mode
  pass,          \* the build pass the bundler is in
  loads,         \* results of the primary load hook, by pass
  resolves,      \* results of the secondary resolve hook in this pass
  served         \* outcomes of the secondary load hook in this pass

vars == <<appCompiler, cssCompiler, live, pc, deps, externals, appOp, cssOp,
          manifestOp, manifest, persistOp, channel, fsWrites, error, held, reads,
          mode, pass, loads, resolves, served>>

orchestratorVars == <<appCompiler, cssCompiler, live, pc, deps, externals, appOp, cssOp,
                      manifestOp, manifest, persistOp, channel, fsWrites, error, held,
                      reads>>

pluginVars == <<mode, pass, loads, resolves, served>>

-----------------------------------------------------------------------------
(* Strings *)

startsWith(s, prefix) ==
  /\ Len(prefix) <= Len(s)
  /\ SubSeq(s, 1, Len(prefix)) = prefix

endsWith(s, suffix) ==
  /\ Len(suffix) <= Len(s)
  /\ SubSeq(s, Len(s) - Len(suffix) + 1, Len(s)) = suffix

includes(list, x) == \E i \in 1..Len(list) : list[i] = x

RECURSIVE join(_, _)
join(list, sep) ==
  IF Len(list) = 0 THEN <<>>
  ELSE IF Len(list) = 1 THEN <<list[1]>>
  ELSE <<list[1], sep>> \o join(Tail(list), sep)

upperChar(ch) ==
  CASE ch = "a" -> "A"
    [] ch = "b" -> "B"
    [] ch = "f" -> "F"
    [] OTHER -> ch

toUpperCase(s) == [i \in 1..Len(s) |-> upperChar(s[i])]

-----------------------------------------------------------------------------
(* Configuration and the inputs the collaborators can give *)

\* builtinModules of node
nodeBuiltins == <<"fs", "path", "url">>

\* the dependency lists package.json can hold
DepLists == { <<"react">>, <<"react", "path">>, <<"url", "react", "fs">> }

assetsBuildDirectory == <<"public/build">>
publicPath == <<"/build/">>

\* path.join(dir, name)
pathJoin(dir, name) == dir \o <<"/">> \o name

cssBundlePathPrefix == pathJoin(assetsBuildDirectory, <<"css-bundle">>)

\* manifest versions createAssetsManifest can compute
Versions == { <<"a", "3">>, <<"b", "f">> }

CssFile == [path |-> cssBundlePathPrefix \o <<"-H1", ".css">>, contents |-> <<"css">>]
MapFile == [path |-> cssBundlePathPrefix \o <<"-H1", ".css", ".map">>,
            contents |-> <<"map">>]
JsFile == [path |-> cssBundlePathPrefix \o <<"-H1", ".js">>, contents |-> <<"js">>]
AssetFile == [path |-> pathJoin(assetsBuildDirectory, <<"_assets/a", ".css">>),
              contents |-> <<"asset">>]

\* the outputFiles a stylesheet build can emit
OutputSets == { <<>>, <<JsFile, AssetFile>>, <<CssFile, MapFile, JsFile, AssetFile>> }

-----------------------------------------------------------------------------
(* Values *)

NoHandle == [session |-> 0, by |-> 0]
undefined == <<>>

NoOp == [kind |-> "none", on |-> NoHandle, st |-> "none", result |-> NoHandle]
NoCssOp == [kind |-> "none", on |-> NoHandle, st |-> "none", result |-> NoHandle,
            outputFiles |-> <<>>, cssBundlePath |-> undefined, pending |-> {}]
NoManifest == [version |-> <<>>, url |-> undefined, metafile |-> 0,
               cssBundlePath |-> undefined]
NoManifestOp == [st |-> "none", metafile |-> 0, cssBundlePath |-> undefined]
NoPersistOp == [st |-> "none", path |-> <<>>, contents |-> <<>>]
NoError == [kind |-> "none", message |-> <<>>]
NoExternals == [called |-> FALSE, threw |-> FALSE, message |-> <<>>, value |-> <<>>]

-----------------------------------------------------------------------------
(* getExternals *)

\* variant: only the first shadowed builtin is reported
fakeBuiltinsFirst(dependencies) ==
  LET found == SelectSeq(nodeBuiltins, LAMBDA mod : includes(dependencies, mod))
  IN IF found = <<>> THEN <<>> ELSE <<found[1]>>

fakeBuiltinsOf(dependencies) ==
  SelectSeq(nodeBuiltins, LAMBDA mod : includes(dependencies, mod))

\* variant: the shadowing check is left out
getExternalsUnchecked(dependencies) ==
  [called |-> TRUE, threw |-> FALSE, message |-> <<>>,
   value |-> SelectSeq(nodeBuiltins, LAMBDA mod : ~includes(dependencies, mod))]

getExternals(dependencies) ==
  LET fakeBuiltins == fakeBuiltinsOf(dependencies) IN
  IF Len(fakeBuiltins) > 0
  THEN [called |-> TRUE, threw |-> TRUE,
        message |-> <<"It appears you're using a module that is built in to node, but you installed it as a dependency which could cause problems. Please remove ">>
                    \o join(fakeBuiltins, ", ") \o <<" before continuing.">>,
        value |-> <<>>]
  ELSE [called |-> TRUE, threw |-> FALSE, message |-> <<>>,
        value |-> SelectSeq(nodeBuiltins, LAMBDA mod : ~includes(dependencies, mod))]

\* createEsbuildConfig, as far as it can throw: external: getExternals(config)
createEsbuildConfig(build, dependencies) == getExternals(dependencies)

-----------------------------------------------------------------------------
(* The synchronous start of compile: both operations are issued *)

\* variant: every compile performs a full build
issueOpAlwaysBuild(compiler) ==
  [kind |-> "build", on |-> NoHandle, st |-> "pending", result |-> NoHandle]

\* variant: the operation is set up but only started later
issueOpNotStarted(compiler) ==
  IF compiler = NoHandle
  THEN [kind |-> "build", on |-> NoHandle, st |-> "none", result |-> NoHandle]
  ELSE [kind |-> "rebuild", on |-> compiler, st |-> "none", result |-> NoHandle]

\* !compiler ? esbuild.build({...createEsbuildConfig(...)}) : compiler.rebuild()
issueOp(compiler) ==
  IF compiler = NoHandle
  THEN [kind |-> "build", on |-> NoHandle, st |-> "pending", result |-> NoHandle]
  ELSE [kind |-> "rebuild", on |-> compiler, st |-> "pending", result |-> NoHandle]

\* the handle an operation of call c resolves to: a full build opens a session,
\* a rebuild gives a new result of the session it was called on
resultHandle(op, c) ==
  IF op.kind = "build" THEN [session |-> c, by |-> c]
  ELSE [session |-> op.on.session, by |-> c]

CompileStart(c, d) ==
  /\ pc[c] = "idle"
  /\ \A b \in Calls : b < c => pc[b] # "idle"
  /\ LET appCfg == IF appCompiler = NoHandle
                   THEN createEsbuildConfig("app", d) ELSE NoExternals
         cssCfg == IF ~appCfg.threw /\ cssCompiler = NoHandle
                   THEN createEsbuildConfig("css", d) ELSE NoExternals
         threw == appCfg.threw \/ cssCfg.threw
     IN
       /\ deps' = [deps EXCEPT ![c] = IF appCfg.called \/ cssCfg.called THEN d ELSE <<>>]
       /\ held' = [held EXCEPT ![c] = [app |-> appCompiler, css |-> cssCompiler]]
       /\ externals' = [externals EXCEPT ![c] = IF appCfg.called THEN appCfg ELSE cssCfg]
       /\ appOp' = [appOp EXCEPT ![c] = IF appCfg.threw THEN NoOp
                                        ELSE issueOp(appCompiler)]
       /\ cssOp' = [cssOp EXCEPT ![c] =
             IF threw THEN NoCssOp
             ELSE [NoCssOp EXCEPT !.kind = issueOp(cssCompiler).kind,
                                  !.on = issueOp(cssCompiler).on,
                                  !.st = issueOp(cssCompiler).st]]
       /\ pc' = [pc EXCEPT ![c] = IF threw THEN "failed" ELSE "awaitBuilds"]
       /\ error' = [error EXCEPT ![c] =
             IF appCfg.threw THEN [kind |-> "shadow", message |-> appCfg.message]
             ELSE IF cssCfg.threw THEN [kind |-> "shadow", message |-> cssCfg.message]
             ELSE NoError]
  /\ UNCHANGED <<appCompiler, cssCompiler, live, manifestOp, manifest, persistOp,
                 channel, fsWrites>>
  /\ UNCHANGED <<reads, pluginVars>>

\* callers serialize compile: a call starts when no other call is running
Serialized(c) == \A b \in Calls : b # c => pc[b] \in {"idle", "done", "failed"}

-----------------------------------------------------------------------------
(* Fan-in: await Promise.all([appBuildPromise, cssBuildPromise]) and what follows *)

\* variant: Promise.allSettled in place of Promise.all
promiseAllSettled(a, s) ==
  IF a \in {"ok", "fail"} /\ s \in {"ok", "fail"} THEN "fulfilled" ELSE "pending"

promiseAll(a, s) ==
  IF a = "fail" \/ s = "fail" THEN "rejected"
  ELSE IF a = "ok" /\ s = "ok" THEN "fulfilled"
  ELSE "pending"

\* a, s: the two promises of call c after the settling that is taking place
FanIn(c, a, s) ==
  LET all == promiseAll(a.st, s.st) IN
  IF pc[c] = "awaitBuilds" /\ all = "rejected"
  THEN /\ pc' = [pc EXCEPT ![c] = "failed"]
       /\ error' = [error EXCEPT ![c] = [kind |-> "build", message |-> <<>>]]
       /\ UNCHANGED <<appCompiler, cssCompiler, manifestOp>>
  ELSE IF pc[c] = "awaitBuilds" /\ all = "fulfilled"
  THEN /\ appCompiler' = a.result
       /\ cssCompiler' = s.result
       /\ manifestOp' = [manifestOp EXCEPT ![c] =
             [st |-> "pending", metafile |-> a.result.by,
              cssBundlePath |-> s.cssBundlePath]]
       /\ pc' = [pc EXCEPT ![c] = "awaitManifest"]
       /\ UNCHANGED error
  ELSE UNCHANGED <<appCompiler, cssCompiler, manifestOp, pc, error>>

\* the application build or rebuild of call c settles
AppOpSettle(c, ok) ==
  /\ appOp[c].st = "pending"
  /\ LET a == IF ok THEN [appOp[c] EXCEPT !.st = "ok", !.result = resultHandle(appOp[c], c)]
              ELSE [appOp[c] EXCEPT !.st = "fail"]
     IN /\ appOp' = [appOp EXCEPT ![c] = a]
        /\ live' = IF ok /\ a.kind = "build" THEN live \cup {<<"app", a.result.session>>}
                   ELSE live
        /\ FanIn(c, a, cssOp[c])
  /\ UNCHANGED <<deps, held, externals, cssOp, manifest, persistOp, channel, fsWrites>>
  /\ UNCHANGED <<reads, pluginVars>>

-----------------------------------------------------------------------------
(* The stylesheet build and the interception of its output *)

\* variant: the prefix test is left out
isCssBundleAnywhere(outputPath) == endsWith(outputPath, <<".css">>)

isCssBundle(outputPath) ==
  startsWith(outputPath, cssBundlePathPrefix) /\ endsWith(outputPath, <<".css">>)

isCssBundleMap(outputPath) ==
  startsWith(outputPath, cssBundlePathPrefix) /\ endsWith(outputPath, <<".css", ".map">>)

\* the files of outputFiles for which the map callback returns fs.writeFile(...)
writesOf(outputFiles) ==
  { i \in 1..Len(outputFiles) :
      isCssBundle(outputFiles[i].path) \/ isCssBundleMap(outputFiles[i].path) }

\* cssBundlePath after the map callback has run over outputFiles in order
RECURSIVE bundlePathOf(_, _)
bundlePathOf(outputFiles, cssBundlePath) ==
  IF outputFiles = <<>> THEN cssBundlePath
  ELSE bundlePathOf(Tail(outputFiles),
                    IF isCssBundle(Head(outputFiles).path)
                    THEN Head(outputFiles).path ELSE cssBundlePath)

\* variant: the callback returns without awaiting the writes
thenCallbackNoAwait(writes) == "ok"

\* await Promise.all(outputFiles.map(...)): the callback is done at once when
\* no write was started
thenCallback(writes) == IF writes = {} THEN "ok" ELSE "writing"

\* the stylesheet build or rebuild of call c settles; on success the .then
\* callback starts the writes
CssOpSettle(c, ok, out) ==
  /\ cssOp[c].st = "pending"
  /\ LET s == IF ok
              THEN [cssOp[c] EXCEPT !.result = resultHandle(cssOp[c], c),
                                    !.outputFiles = out,
                                    !.cssBundlePath = bundlePathOf(out, undefined),
                                    !.pending = writesOf(out),
                                    !.st = thenCallback(writesOf(out))]
              ELSE [cssOp[c] EXCEPT !.st = "fail"]
     IN /\ cssOp' = [cssOp EXCEPT ![c] = s]
        /\ live' = IF ok /\ s.kind = "build" THEN live \cup {<<"css", s.result.session>>}
                   ELSE live
        /\ FanIn(c, appOp[c], s)
  /\ UNCHANGED <<deps, held, externals, appOp, manifest, persistOp, channel, fsWrites>>
  /\ UNCHANGED <<reads, pluginVars>>

\* one fs.writeFile of call c settles
WriteSettle(c, i, ok) ==
  /\ i \in cssOp[c].pending
  /\ LET left == cssOp[c].pending \ {i}
         s == [cssOp[c] EXCEPT !.pending = left,
                               !.st = IF @ # "writing" THEN @
                                      ELSE IF ~ok THEN "fail"
                                      ELSE IF left = {} THEN "ok" ELSE "writing"]
     IN /\ cssOp' = [cssOp EXCEPT ![c] = s]
        /\ fsWrites' = IF ok
                       THEN fsWrites \cup {[call |-> c,
                                            path |-> cssOp[c].outputFiles[i].path,
                                            contents |-> cssOp[c].outputFiles[i].contents]}
                       ELSE fsWrites
        /\ FanIn(c, appOp[c], s)
  /\ UNCHANGED <<deps, held, externals, appOp, live, manifest, persistOp, channel>>
  /\ UNCHANGED <<reads, pluginVars>>

-----------------------------------------------------------------------------
(* Manifest construction, publication and persistence *)

\* JSON.stringify of a manifest: a field that is undefined is left out
stringify(m) ==
  <<"{", "version:">> \o m.version
  \o (IF m.url = undefined THEN <<>> ELSE <<",", "url:">> \o m.url)
  \o (IF m.cssBundlePath = undefined THEN <<>>
      ELSE <<",", "cssBundlePath:">> \o m.cssBundlePath)
  \o <<"}">>

\* variant: the version is not upper-cased
manifestFilenameAsIs(version) == <<"manifest-">> \o version \o <<".js">>

manifestFilename(version) == <<"manifest-">> \o toUpperCase(version) \o <<".js">>

\* writeAssetsManifest up to its await: the manifest as it leaves, and the
\* write it starts
writeAssetsManifest(m) ==
  LET filename == manifestFilename(m.version)
      assetsManifest == [m EXCEPT !.url = publicPath \o filename]
  IN [manifest |-> assetsManifest,
      path |-> pathJoin(assetsBuildDirectory, filename),
      contents |-> <<"window.__remixManifest=">> \o stringify(assetsManifest) \o <<";">>]

\* variant: the manifest is not published
channelWriteDropped(ch, ref) == ch

\* manifestChannel.write(manifest): the channel holds the object itself
channelWrite(ch, ref) == Append(ch, ref)

\* variant: the write is started only once a reader has taken the manifest
startWriteAfterRead(path, contents) ==
  [st |-> "none", path |-> path, contents |-> contents]

\* writeFileSafe(path, contents) is called: the write is in flight
startWrite(path, contents) == [st |-> "pending", path |-> path, contents |-> contents]

\* createAssetsManifest settles; on success the manifest is published and
\* writeAssetsManifest is entered
ManifestSettle(c, ok, v) ==
  /\ pc[c] = "awaitManifest"
  /\ manifestOp[c].st = "pending"
  /\ IF ok
     THEN LET built == [version |-> v, url |-> undefined,
                        metafile |-> manifestOp[c].metafile,
                        cssBundlePath |-> manifestOp[c].cssBundlePath]
              w == writeAssetsManifest(built)
          IN /\ manifestOp' = [manifestOp EXCEPT ![c].st = "ok"]
             /\ channel' = channelWrite(channel, c)
             /\ manifest' = [manifest EXCEPT ![c] = w.manifest]
             /\ persistOp' = [persistOp EXCEPT ![c] = startWrite(w.path, w.contents)]
             /\ pc' = [pc EXCEPT ![c] = "awaitPersist"]
             /\ UNCHANGED error
     ELSE /\ manifestOp' = [manifestOp EXCEPT ![c].st = "fail"]
          /\ pc' = [pc EXCEPT ![c] = "failed"]
          /\ error' = [error EXCEPT ![c] = [kind |-> "manifest", message |-> <<>>]]
          /\ UNCHANGED <<channel, manifest, persistOp>>
  /\ UNCHANGED <<appCompiler, cssCompiler, live, deps, held, externals, appOp, cssOp,
                 fsWrites>>
  /\ UNCHANGED <<reads, pluginVars>>

\* writeFileSafe settles
PersistSettle(c, ok) ==
  /\ pc[c] = "awaitPersist"
  /\ persistOp[c].st = "pending"
  /\ IF ok
     THEN /\ persistOp' = [persistOp EXCEPT ![c].st = "ok"]
          /\ fsWrites' = fsWrites \cup {[call |-> c, path |-> persistOp[c].path,
                                         contents |-> persistOp[c].contents]}
          /\ pc' = [pc EXCEPT ![c] = "done"]
          /\ UNCHANGED error
     ELSE /\ persistOp' = [persistOp EXCEPT ![c].st = "fail"]
          /\ pc' = [pc EXCEPT ![c] = "failed"]
          /\ error' = [error EXCEPT ![c] = [kind |-> "persist", message |-> <<>>]]
          /\ UNCHANGED fsWrites
  /\ UNCHANGED <<appCompiler, cssCompiler, live, deps, held, externals, appOp, cssOp,
                 manifestOp, manifest, channel>>
  /\ UNCHANGED <<reads, pluginVars>>

-----------------------------------------------------------------------------
(* dispose: () => appCompiler?.rebuild.dispose() *)

\* variant: dispose ends every application session of the engine
disposedByAny(app, css) == { <<"app", n>> : n \in 0..(MaxCalls + 1) }

disposedBy(app, css) == IF app = NoHandle THEN {} ELSE {<<"app", app.session>>}

Dispose ==
  /\ live' = live \ disposedBy(appCompiler, cssCompiler)
  /\ UNCHANGED <<appCompiler, cssCompiler, pc, deps, held, externals, appOp, cssOp,
                 manifestOp, manifest, persistOp, channel, fsWrites, error>>
  /\ UNCHANGED <<reads, pluginVars>>

-----------------------------------------------------------------------------

\* the plugin before any build pass; the orchestrator runs are in development mode
PluginIdle ==
  /\ mode = "development"
  /\ pass = 1
  /\ loads = {}
  /\ resolves = {}
  /\ served = {}

Init ==
  /\ appCompiler = NoHandle
  /\ cssCompiler = NoHandle
  /\ live = {}
  /\ pc = [c \in Calls |-> "idle"]
  /\ deps = [c \in Calls |-> <<>>]
  /\ externals = [c \in Calls |-> NoExternals]
  /\ appOp = [c \in Calls |-> NoOp]
  /\ cssOp = [c \in Calls |-> NoCssOp]
  /\ manifestOp = [c \in Calls |-> NoManifestOp]
  /\ manifest = [c \in Calls |-> NoManifest]
  /\ persistOp = [c \in Calls |-> NoPersistOp]
  /\ channel = <<>>
  /\ fsWrites = {}
  /\ error = [c \in Calls |-> NoError]
  /\ held = [c \in Calls |-> [app |-> NoHandle, css |-> NoHandle]]
  /\ reads = 0
  /\ PluginIdle

Compile == \E c \in Calls, d \in DepLists : Serialized(c) /\ CompileStart(c, d)
AppOp == \E c \in Calls, ok \in BOOLEAN : AppOpSettle(c, ok)
CssOp == \E c \in Calls, ok \in BOOLEAN, out \in OutputSets : CssOpSettle(c, ok, out)
Write == \E c \in Calls, ok \in BOOLEAN : \E i \in cssOp[c].pending : WriteSettle(c, i, ok)
Manifest == \E c \in Calls, ok \in BOOLEAN, v \in Versions : ManifestSettle(c, ok, v)
Persist == \E c \in Calls, ok \in BOOLEAN : PersistSettle(c, ok)

Next == Compile \/ AppOp \/ CssOp \/ Write \/ Manifest \/ Persist \/ Dispose

Spec == Init /\ [][Next]_vars

\* Compile calls that callers do not serialize: a call may start while others
\* run. The orchestrator is either new or has completed one compile before
\* (the handles of that compile carry the session number MaxCalls + 1).
PriorHandle == [session |-> MaxCalls + 1, by |-> MaxCalls + 1]

InitNewOrUsed ==
  /\ \/ /\ appCompiler = NoHandle
        /\ cssCompiler = NoHandle
        /\ live = {}
     \/ /\ appCompiler = PriorHandle
        /\ cssCompiler = PriorHandle
        /\ live = {<<"app", PriorHandle.session>>, <<"css", PriorHandle.session>>}
  /\ pc = [c \in Calls |-> "idle"]
  /\ deps = [c \in Calls |-> <<>>]
  /\ externals = [c \in Calls |-> NoExternals]
  /\ appOp = [c \in Calls |-> NoOp]
  /\ cssOp = [c \in Calls |-> NoCssOp]
  /\ manifestOp = [c \in Calls |-> NoManifestOp]
  /\ manifest = [c \in Calls |-> NoManifest]
  /\ persistOp = [c \in Calls |-> NoPersistOp]
  /\ channel = <<>>
  /\ fsWrites = {}
  /\ error = [c \in Calls |-> NoError]
  /\ held = [c \in Calls |-> [app |-> NoHandle, css |-> NoHandle]]
  /\ reads = 0
  /\ PluginIdle

\* a smaller choice of inputs, for the runs that explore more interleavings
SmallDepLists == { <<"react">>, <<"react", "path">> }
SmallOutputSets == { <<>>, <<CssFile, JsFile>> }
SmallVersions == { <<"a", "3">> }

CompileOverlapped == \E c \in Calls, d \in SmallDepLists : CompileStart(c, d)
CssOpSmall ==
  \E c \in Calls, ok \in BOOLEAN, out \in SmallOutputSets : CssOpSettle(c, ok, out)
ManifestSmall ==
  \E c \in Calls, ok \in BOOLEAN, v \in SmallVersions : ManifestSettle(c, ok, v)

NextOverlap ==
  \/ CompileOverlapped
  \/ AppOp
  \/ CssOpSmall
  \/ Write
  \/ ManifestSmall
  \/ Persist
  \/ Dispose

SpecOverlap == InitNewOrUsed /\ [][NextOverlap]_vars

\* Serialized compile calls whose operations all settle, with a consumer that
\* may read the channel or never do so. The builds, the writes and the
\* manifest builder are taken to complete; nothing is asked of the consumer.
ChannelRead ==
  /\ reads < Len(channel)
  /\ reads' = reads + 1
  /\ UNCHANGED <<appCompiler, cssCompiler, live, pc, deps, externals, appOp, cssOp,
                 manifestOp, manifest, persistOp, channel, fsWrites, error, held>>
  /\ UNCHANGED pluginVars

CompileSmall ==
  \E c \in Calls, d \in SmallDepLists : Serialized(c) /\ CompileStart(c, d)

NextSettling ==
  \/ CompileSmall
  \/ AppOp
  \/ CssOpSmall
  \/ Write
  \/ ManifestSmall
  \/ Persist
  \/ Dispose
  \/ ChannelRead

SpecSettling ==
  /\ Init
  /\ [][NextSettling]_vars
  /\ WF_vars(AppOp)
  /\ WF_vars(CssOpSmall)
  /\ WF_vars(Write)
  /\ WF_vars(ManifestSmall)
  /\ WF_vars(Persist)

\* serialized compile calls on an orchestrator that is new or has compiled before
SpecResumed == InitNewOrUsed /\ [][NextSettling]_vars

-----------------------------------------------------------------------------
(* cssModulesPlugin *)
(* A path is a sequence of segments and a segment is a sequence of tokens.  *)
(* An action is one invocation of a hook by the bundler, or the start of    *)
(* the next build pass.                                                     *)

MaxPasses == 2

HashWidth == 5

Modes == {"production", "development", "test"}

pluginNamespace == "css-modules-plugin-namespace"

compiledCssQueryString == <<"?css-modules-plugin-compiled-css">>

cssModulesFilter(path) ==
  path # <<>> /\ endsWith(path[Len(path)], <<".module", ".css">>)

compiledCssFilter(path) ==
  path # <<>> /\ endsWith(path[Len(path)], compiledCssQueryString)

cwd == << <<"proj">> >>

AppDir == cwd \o << <<"app">> >>

StyleA == AppDir \o << <<"a", ".module", ".css">> >>

StyleB == AppDir \o << <<"routes">>, <<"a", ".module", ".css">> >>

StyleFiles == {StyleA, StyleB}

\* what readFile can give: the local class names of a stylesheet, in order
Sources == {<<"title">>, <<"title", "box">>}

undefinedData == [defined |-> FALSE, resolveDir |-> <<>>, compiledCss |-> <<>>]

dirname(path) == SubSeq(path, 1, Len(path) - 1)

basename(path) == path[Len(path)]

RECURSIVE pathResolve(_, _)
pathResolve(dir, path) ==
  IF path = <<>> THEN dir
  ELSE LET seg == Head(path) IN
       IF seg = <<".">> THEN pathResolve(dir, Tail(path))
       ELSE IF seg = <<"..">> THEN pathResolve(dirname(dir), Tail(path))
       ELSE pathResolve(Append(dir, seg), Tail(path))

RECURSIVE commonLen(_, _)
commonLen(a, b) ==
  IF a = <<>> \/ b = <<>> \/ Head(a) # Head(b) THEN 0
  ELSE 1 + commonLen(Tail(a), Tail(b))

pathRelative(from, to) ==
  LET k == commonLen(from, to) IN
  [i \in 1..(Len(from) - k) |-> <<"..">>] \o SubSeq(to, k + 1, Len(to))

\* the digest postcss-modules derives from the file and the local name
digest(path, local) ==
  [i \in 1..HashWidth |->
     CASE i = 1 -> IF path = StyleA THEN "A" ELSE "B"
       [] i = 2 -> local
       [] OTHER -> "0"]

generateScopedNameAnyMode(m) ==
  <<"[name]", "__", "[local]", "__", "[hash:base64:5]">>

generateScopedName(m) ==
  IF m = "production"
    THEN <<"[hash:base64:5]">>
    ELSE <<"[name]", "__", "[local]", "__", "[hash:base64:5]">>

\* [name] is the file's base name without its extension
nameOf(path) == SubSeq(basename(path), 1, Len(basename(path)) - 1)

RECURSIVE interpolateName(_, _, _)
interpolateName(pattern, path, local) ==
  IF pattern = <<>> THEN <<>>
  ELSE (CASE Head(pattern) = "[name]" -> nameOf(path)
          [] Head(pattern) = "[local]" -> <<local>>
          [] Head(pattern) = "[hash:base64:5]" -> digest(path, local)
          [] OTHER -> <<Head(pattern)>>)
       \o interpolateName(Tail(pattern), path, local)

\* getJSON: the Name Mapping of the file
exportsOf(m, path, source) ==
  [local \in { source[i] : i \in DOMAIN source } |->
     interpolateName(generateScopedName(m), path, local)]

RECURSIVE cssOf(_, _, _)
cssOf(m, path, source) ==
  IF source = <<>> THEN <<>>
  ELSE <<".">> \o interpolateName(generateScopedName(m), path, Head(source))
       \o <<"{}">> \o cssOf(m, path, Tail(source))

\* the source map exists only outside production; it is appended, encoded
compiledCssOf(m, path, source) ==
  IF m # "production"
    THEN cssOf(m, path, source)
         \o <<"/*# sourceMappingURL=data:application/json;base64,">>
         \o <<"base64(">> \o basename(path) \o source \o <<")">> \o <<" */">>
    ELSE cssOf(m, path, source)

onLoadPrimaryOtherDir(m, path, source) ==
  [contents   |-> [import  |-> << <<".">>, basename(path) \o compiledCssQueryString >>,
                   default |-> exportsOf(m, path, source)],
   loader     |-> "js",
   pluginData |-> [defined     |-> TRUE,
                   resolveDir  |-> AppDir,
                   compiledCss |-> compiledCssOf(m, path, source)]]

onLoadPrimary(m, path, source) ==
  [contents   |-> [import  |-> << <<".">>, basename(path) \o compiledCssQueryString >>,
                   default |-> exportsOf(m, path, source)],
   loader     |-> "js",
   pluginData |-> [defined     |-> TRUE,
                   resolveDir  |-> dirname(path),
                   compiledCss |-> compiledCssOf(m, path, source)]]

onResolveCompiled(args) ==
  [namespace  |-> pluginNamespace,
   path       |-> pathRelative(cwd, pathResolve(args.resolveDir, args.path)),
   pluginData |-> args.pluginData]

\* destructuring an undefined pluginData throws a TypeError
onLoadCompiled(args) ==
  IF args.pluginData.defined
    THEN [threw      |-> FALSE,
          resolveDir |-> args.pluginData.resolveDir,
          contents   |-> args.pluginData.compiledCss,
          loader     |-> "css"]
    ELSE [threw      |-> TRUE,
          resolveDir |-> <<>>,
          contents   |-> <<>>,
          loader     |-> ""]

\* the primary load hook runs once for each scoped-style file of a pass
PrimaryLoad(path, source) ==
  /\ cssModulesFilter(path)
  /\ ~ \E l \in loads : l.pass = pass /\ l.path = path
  /\ loads' = loads \cup {[pass   |-> pass,
                           path   |-> path,
                           source |-> source,
                           result |-> onLoadPrimary(mode, path, source)]}
  /\ UNCHANGED <<mode, pass, resolves, served>>
  /\ UNCHANGED orchestratorVars

resolveCompiled(importer, args) ==
  /\ compiledCssFilter(args.path)
  /\ resolves' = resolves \cup {[importer |-> importer,
                                 args     |-> args,
                                 result   |-> onResolveCompiled(args)]}
  /\ UNCHANGED <<mode, pass, loads, served>>
  /\ UNCHANGED orchestratorVars

\* the import that a binding module produced by the primary load hook carries
ResolveFromBinding ==
  \E l \in loads :
    /\ l.pass = pass
    /\ resolveCompiled(l.path,
                       [path       |-> l.result.contents.import,
                        resolveDir |-> dirname(l.path),
                        pluginData |-> l.result.pluginData])

\* an application module that names the virtual stylesheet itself
AppModule == AppDir \o << <<"root", ".tsx">> >>

AppImports ==
  { << <<".">>, <<"a", ".module", ".css">> \o compiledCssQueryString >>,
    << <<".">>, <<"a", ".module", ".css">> >> }

ResolveFromApp ==
  \E spec \in AppImports :
    resolveCompiled(AppModule,
                    [path       |-> spec,
                     resolveDir |-> dirname(AppModule),
                     pluginData |-> undefinedData])

\* a module is loaded once in a pass, with the record of the resolve that
\* first reached it
SecondaryLoad ==
  \E r \in resolves :
    /\ compiledCssFilter(r.result.path)
    /\ r.result.namespace = pluginNamespace
    /\ ~ \E s \in served : s.path = r.result.path
    /\ served' = served \cup {[path       |-> r.result.path,
                               importer   |-> r.importer,
                               pluginData |-> r.result.pluginData,
                               result     |-> onLoadCompiled(r.result)]}
    /\ UNCHANGED <<mode, pass, loads, resolves>>
    /\ UNCHANGED orchestratorVars

\* a rebuild starts the next pass; what the bundler resolved and loaded in
\* the pass before is gone
NextPass ==
  /\ pass < MaxPasses
  /\ pass' = pass + 1
  /\ resolves' = {}
  /\ served' = {}
  /\ UNCHANGED <<mode, loads>>
  /\ UNCHANGED orchestratorVars

LoadStyle == \E path \in StyleFiles : \E source \in Sources : PrimaryLoad(path, source)

InitPlugin ==
  /\ appCompiler = NoHandle
  /\ cssCompiler = NoHandle
  /\ live = {}
  /\ pc = [c \in Calls |-> "idle"]
  /\ deps = [c \in Calls |-> <<>>]
  /\ held = [c \in Calls |-> [app |-> NoHandle, css |-> NoHandle]]
  /\ externals = [c \in Calls |-> NoExternals]
  /\ appOp = [c \in Calls |-> NoOp]
  /\ cssOp = [c \in Calls |-> NoCssOp]
  /\ manifestOp = [c \in Calls |-> NoManifestOp]
  /\ manifest = [c \in Calls |-> NoManifest]
  /\ persistOp = [c \in Calls |-> NoPersistOp]
  /\ channel = <<>>
  /\ fsWrites = {}
  /\ error = [c \in Calls |-> NoError]
  /\ reads = 0
  /\ mode \in Modes
  /\ pass = 1
  /\ loads = {}
  /\ resolves = {}
  /\ served = {}

NextPlugin ==
  \/ LoadStyle
  \/ ResolveFromBinding
  \/ ResolveFromApp
  \/ SecondaryLoad
  \/ NextPass

SpecPlugin == InitPlugin /\ [][NextPlugin]_vars

-----------------------------------------------------------------------------
(* Properties *)

Range(f) == { f[i] : i \in DOMAIN f }

started(c) == pc[c] # "idle"

\* the number of times the manifest of call c was written to the channel
channelWrites(c) == Cardinality({ i \in DOMAIN channel : channel[i] = c })

writesBy(c) == { w \in fsWrites : w.call = c }

isManifestPath(p) == startsWith(p, pathJoin(assetsBuildDirectory, <<"manifest-">>))

\* C1: whenever the application operation or the stylesheet operation of a
\* compile call has failed, the call has failed, the manifest builder has not
\* been called by it and it has written no manifest file.
C1_BuildFailureAborts ==
  \A c \in Calls :
    (appOp[c].st = "fail" \/ cssOp[c].st = "fail") =>
      /\ pc[c] = "failed"
      /\ manifestOp[c].st = "none"
      /\ persistOp[c].st = "none"
      /\ \A w \in writesBy(c) : ~isManifestPath(w.path)

\* a call whose stylesheet operation failed after its application operation
\* had succeeded
C1_Witness ==
  \E c \in Calls : appOp[c].st = "ok" /\ cssOp[c].st = "fail" /\ pc[c] = "failed"

\* C2: a compile call that has failed has written nothing to disk.
C2_FailedCompileWritesNothing ==
  \A c \in Calls : pc[c] = "failed" => writesBy(c) = {}

\* C3: a call of dispose on an orchestrator that has completed a compile
\* leaves neither the application handle nor the stylesheet handle it holds
\* live.
C3_DisposeReleasesAll ==
  [][(Dispose /\ \E c \in Calls : pc[c] = "done") =>
       /\ <<"app", appCompiler.session>> \notin live'
       /\ <<"css", cssCompiler.session>> \notin live']_vars

\* C4: under serialized compile calls there is at most one live incremental
\* session per build target.
C4_OneLiveHandlePerTarget ==
  \A t \in {"app", "css"} : Cardinality({ h \in live : h[1] = t }) <= 1

\* C5: a compile call that follows a successful one issues no full build: it
\* calls rebuild on the two handles the earlier call stored, and once both
\* rebuilds have succeeded the orchestrator holds the handles they returned.
C5_SecondCallRebuilds ==
  \A c \in Calls :
    (c > 1 /\ pc[c - 1] = "done" /\ started(c)) =>
      /\ appOp[c].kind = "rebuild" /\ appOp[c].on = appOp[c - 1].result
      /\ cssOp[c].kind = "rebuild" /\ cssOp[c].on = cssOp[c - 1].result
      /\ (pc[c] \in {"awaitManifest", "awaitPersist", "done"}
          /\ (\A b \in Calls : b > c => ~started(b))) =>
            /\ appOp[c].result.by = c /\ appCompiler = appOp[c].result
            /\ cssOp[c].result.by = c /\ cssCompiler = cssOp[c].result

\* two successful compile calls in a row
C5_Witness ==
  \E c \in Calls : c > 1 /\ pc[c - 1] = "done" /\ pc[c] = "done"

\* C6 as stated: a successful call has written exactly one manifest to the
\* channel and a failed call none.
C6_FailedCompileNeverPublishes ==
  \A c \in Calls :
    /\ pc[c] = "done" => channelWrites(c) = 1
    /\ pc[c] = "failed" => channelWrites(c) = 0

\* C6 amended: a successful call has written exactly one manifest to the
\* channel; a call that failed in configuration, in a build or in manifest
\* construction has written none; a call that failed in manifest persistence
\* has written exactly one.
C6_PublishesOncePastConstruction ==
  \A c \in Calls :
    /\ pc[c] = "done" => channelWrites(c) = 1
    /\ (pc[c] = "failed" /\ error[c].kind \in {"shadow", "build", "manifest"}) =>
         channelWrites(c) = 0
    /\ (pc[c] = "failed" /\ error[c].kind = "persist") => channelWrites(c) = 1

\* a call that failed in manifest persistence, after a call that succeeded
C6_Witness ==
  \E b, c \in Calls :
    /\ pc[b] = "done"
    /\ pc[c] = "failed" /\ error[c].kind = "persist" /\ channelWrites(c) = 1

expectedUrl(m) == publicPath \o <<"manifest-">> \o toUpperCase(m.version) \o <<".js">>

overlap(d) == Range(nodeBuiltins) \cap Range(d)

\* C8: a compile call begun with no handles held and with a dependency list
\* that shares a name with a builtin has failed without issuing a build or a
\* rebuild for either target and has written nothing to disk or to the channel.
C8_ShadowFailsBeforeBuild ==
  \A c \in Calls :
    (started(c) /\ held[c].app = NoHandle /\ held[c].css = NoHandle
     /\ overlap(deps[c]) # {}) =>
      /\ pc[c] = "failed"
      /\ appOp[c].kind = "none" /\ cssOp[c].kind = "none"
      /\ appOp[c].st = "none" /\ cssOp[c].st = "none"
      /\ writesBy(c) = {}
      /\ channelWrites(c) = 0

\* a call that failed on a shadowed builtin
C8_Witness ==
  \E c \in Calls :
    /\ pc[c] = "failed" /\ error[c].kind = "shadow"
    /\ held[c].app = NoHandle /\ held[c].css = NoHandle
    /\ overlap(deps[c]) # {}

ModuleNames == Range(nodeBuiltins) \cup UNION { Range(d) : d \in DepLists }

\* C9: getExternals, for a dependency list that shares a name with the
\* builtins, throws an error whose message names exactly the shared names; for
\* a disjoint list it returns the whole builtin list.
C9_GetExternals ==
  \A c \in Calls :
    externals[c].called =>
      /\ overlap(deps[c]) # {} =>
           /\ externals[c].threw
           /\ Range(externals[c].message) \cap ModuleNames = overlap(deps[c])
      /\ overlap(deps[c]) = {} =>
           /\ ~externals[c].threw
           /\ externals[c].value = nodeBuiltins

\* getExternals has thrown on two shared names in one call and has returned
\* the builtins in another
C9_Witness ==
  \E b, c \in Calls :
    /\ externals[b].threw /\ Cardinality(overlap(deps[b])) = 2
    /\ externals[c].called /\ ~externals[c].threw

underPrefix(p) == startsWith(p, cssBundlePathPrefix)

\* the stylesheet files the build of call c emitted under the prefix
emittedCss(c) ==
  { i \in 1..Len(cssOp[c].outputFiles) :
      underPrefix(cssOp[c].outputFiles[i].path)
      /\ endsWith(cssOp[c].outputFiles[i].path, <<".css">>) }

\* C10: for every call whose stylesheet build has completed: with no .css
\* file emitted under the prefix the bundle path is undefined and the call
\* writes no stylesheet file; otherwise the resolved bundle path is the path of
\* an emitted .css file under the prefix that the call has written verbatim;
\* an emitted file outside the prefix, or under it but neither .css nor
\* .css.map, is never written.
C10_CssBundlePath ==
  \A c \in Calls :
    cssOp[c].result # NoHandle =>
      LET out == cssOp[c].outputFiles IN
      /\ emittedCss(c) = {} =>
           /\ cssOp[c].cssBundlePath = undefined
           /\ \A w \in writesBy(c) : ~endsWith(w.path, <<".css">>)
      /\ (emittedCss(c) # {} /\ cssOp[c].st = "ok") =>
           \E i \in emittedCss(c) :
             /\ cssOp[c].cssBundlePath = out[i].path
             /\ [call |-> c, path |-> out[i].path, contents |-> out[i].contents]
                  \in fsWrites
      /\ \A i \in 1..Len(out) :
           ~(underPrefix(out[i].path)
             /\ (endsWith(out[i].path, <<".css">>)
                 \/ endsWith(out[i].path, <<".css", ".map">>))) =>
             \A w \in writesBy(c) : w.path # out[i].path
      /\ \A w \in writesBy(c) :
           ~isManifestPath(w.path) =>
             \E i \in 1..Len(out) : w.path = out[i].path /\ w.contents = out[i].contents

\* one call resolved a bundle path out of an output that also held files to
\* discard, and another call's output held no stylesheet under the prefix
C10_Witness ==
  \E b, c \in Calls :
    /\ cssOp[b].st = "ok" /\ cssOp[b].cssBundlePath # undefined
    /\ writesOf(cssOp[b].outputFiles) # 1..Len(cssOp[b].outputFiles)
    /\ cssOp[c].st = "ok" /\ cssOp[c].outputFiles # <<>> /\ emittedCss(c) = {}

\* call c has passed the fan-in: both of its operations succeeded
joined(c) == manifestOp[c].st # "none"

\* two calls that began with the same handles held: no call stored handles
\* between their beginnings
sameStart(b, c) == b # c /\ started(b) /\ started(c) /\ held[b] = held[c]

C11_SameOperations ==
  \A b, c \in Calls :
    sameStart(b, c) =>
      /\ (held[c].app # NoHandle /\ held[c].css # NoHandle) =>
           /\ appOp[b].kind = "rebuild" /\ appOp[c].kind = "rebuild"
           /\ appOp[b].on = held[c].app /\ appOp[c].on = held[c].app
           /\ cssOp[b].kind = "rebuild" /\ cssOp[c].kind = "rebuild"
           /\ cssOp[b].on = held[c].css /\ cssOp[c].on = held[c].css
      /\ (held[c].app = NoHandle /\ held[c].css = NoHandle
          /\ pc[b] = "awaitBuilds" /\ pc[c] = "awaitBuilds") =>
           /\ appOp[b].kind = "build" /\ appOp[c].kind = "build"
           /\ cssOp[b].kind = "build" /\ cssOp[c].kind = "build"

\* a fan-in that replaces a stored handle by a handle of another session
\* releases nothing
C11_OverwriteKeepsLive ==
  \A c \in Calls :
    (pc[c] = "awaitBuilds" /\ pc'[c] = "awaitManifest") =>
      /\ appCompiler' = appOp'[c].result
      /\ cssCompiler' = cssOp'[c].result
      /\ live \subseteq live'

\* C11: without serialization, two calls that began with the same stored
\* handles both call rebuild on those handles, two calls that began with no
\* handles both issue a full build for each target, and the fan-in that
\* overwrites a stored handle does not release it.
C11_OverlapRaces == []C11_SameOperations /\ [][C11_OverwriteKeepsLive]_vars

\* two calls began with no handles, both passed the fan-in, and the
\* application session of one of them is live but no longer held
C11_Witness ==
  \E b, c \in Calls :
    /\ sameStart(b, c)
    /\ held[c].app = NoHandle
    /\ joined(b) /\ joined(c)
    /\ appCompiler = appOp[c].result
    /\ appOp[b].result.session # appCompiler.session
    /\ <<"app", appOp[b].result.session>> \in live
    /\ <<"app", appCompiler.session>> \in live

\* two rebuilds of the same stored application handle are in flight together
C11_WitnessRebuild ==
  \E b, c \in Calls :
    /\ sameStart(b, c)
    /\ appOp[b].kind = "rebuild" /\ appOp[b].st = "pending"
    /\ appOp[c].kind = "rebuild" /\ appOp[c].st = "pending"
    /\ appOp[b].on = appOp[c].on
    /\ <<"app", appOp[c].on.session>> \in live

\* C12 as stated: a call of dispose on an orchestrator on which no compile has
\* completed successfully changes nothing.
C12_DisposeBeforeSuccessIsNoop ==
  [][(Dispose /\ ~\E c \in Calls : pc[c] = "done") => UNCHANGED vars]_vars

\* C12 amended: a call of dispose on an orchestrator that holds no handle
\* changes nothing: no error is recorded, no operation is issued and no
\* session is released.
C12_DisposeWithoutHandleIsNoop ==
  [][(Dispose /\ appCompiler = NoHandle) => UNCHANGED vars]_vars

\* the orchestrator holds no handle after a failed compile that left a live
\* session behind; dispose is enabled here and this is also the state it leaves
C12_Witness ==
  /\ appCompiler = NoHandle
  /\ \E c \in Calls : pc[c] = "failed" /\ <<"app", c>> \in live
  /\ ENABLED Dispose

terminated(c) == pc[c] \in {"done", "failed"}

\* once a call has written to the channel its manifest write is in flight or
\* settled, whatever the consumer has read
C13_PersistenceStarted ==
  \A c \in Calls : channelWrites(c) > 0 => persistOp[c].st # "none"

\* C13: when the builds, the disk writes and the manifest builder settle,
\* every compile call that has begun terminates, whether or not a consumer
\* reads the channel, and the manifest write is started in the step that
\* writes to the channel.
C13_CompileTerminates ==
  /\ []C13_PersistenceStarted
  /\ \A c \in Calls : (started(c) ~> terminated(c))

\* a call has completed although no consumer has read anything
C13_Witness ==
  \E c \in Calls : pc[c] = "done" /\ channelWrites(c) = 1 /\ reads = 0

\* C15: when the manifest builder has been called by a compile call, both
\* operations of that call have succeeded, every stylesheet write the call
\* started has been flushed, and the builder was given the metafile of this
\* call's application result and the bundle path of this call's output.
C15_ManifestAfterBuilds ==
  \A c \in Calls :
    manifestOp[c].st # "none" =>
      LET out == cssOp[c].outputFiles IN
      /\ appOp[c].st = "ok" /\ cssOp[c].st = "ok"
      /\ cssOp[c].pending = {}
      /\ \A i \in 1..Len(out) :
           (underPrefix(out[i].path)
            /\ (endsWith(out[i].path, <<".css">>)
                \/ endsWith(out[i].path, <<".css", ".map">>))) =>
             [call |-> c, path |-> out[i].path, contents |-> out[i].contents] \in fsWrites
      /\ manifestOp[c].metafile = appOp[c].result.by
      /\ appOp[c].result.by = c
      /\ IF emittedCss(c) = {} THEN manifestOp[c].cssBundlePath = undefined
         ELSE \E i \in emittedCss(c) : manifestOp[c].cssBundlePath = out[i].path

\* the builder was called with no bundle path by a call that follows one whose
\* builder was given a bundle path, after that call's two writes
C15_Witness ==
  \E b, c \in Calls :
    /\ b < c
    /\ manifestOp[b].st # "none" /\ manifestOp[b].cssBundlePath # undefined
    /\ Cardinality(writesBy(b)) >= 2
    /\ manifestOp[c].st # "none" /\ manifestOp[c].cssBundlePath = undefined

\* C16: a compile call that got past configuration has issued both operations
\* before it first suspends: neither operation is held back until the other
\* settles.
C16_BothIssuedAtStart ==
  \A c \in Calls :
    (started(c) /\ error[c].kind # "shadow") =>
      /\ appOp[c].st # "none"
      /\ cssOp[c].st # "none"

\* in one call the application operation settled while the stylesheet
\* operation was in flight, in another the stylesheet operation settled first
C16_Witness ==
  \E b, c \in Calls :
    /\ appOp[b].st \in {"ok", "fail"} /\ cssOp[b].st = "pending"
    /\ cssOp[c].st \in {"ok", "writing", "fail"} /\ appOp[c].st = "pending"

noneRunning == \A c \in Calls : pc[c] \in {"idle", "done", "failed"}

\* C18: under serialized calls, when no compile is running the two stored
\* handles are both absent or both present.
C18_HandlesInPairs ==
  noneRunning => ((appCompiler = NoHandle) <=> (cssCompiler = NoHandle))

\* no compile is running, a compile failed with one target built, and no
\* handle is stored
C18_Witness ==
  /\ noneRunning
  /\ appCompiler = NoHandle /\ cssCompiler = NoHandle
  /\ \E c \in Calls : pc[c] = "failed" /\ appOp[c].st = "ok" /\ cssOp[c].st = "fail"

lastStarted(c) == started(c) /\ \A b \in Calls : b > c => ~started(b)

\* C19 as stated: a failed compile leaves both stored handles as they were
\* when it began.
C19_FailedCompileKeepsHandles ==
  \A c \in Calls :
    (pc[c] = "failed" /\ lastStarted(c)) =>
      appCompiler = held[c].app /\ cssCompiler = held[c].css

\* C19 amended: a compile that failed in configuration or in a build or
\* rebuild leaves both stored handles as they were when it began, and the
\* next compile issues, for each target, a rebuild of the handle held before
\* or, when none was held, a full build; a compile that failed in manifest
\* construction or persistence has stored the handles its operations returned.
C19_BuildFailureKeepsHandles ==
  \A c \in Calls :
    /\ (pc[c] = "failed" /\ error[c].kind \in {"shadow", "build"}) =>
         /\ lastStarted(c) => (appCompiler = held[c].app /\ cssCompiler = held[c].css)
         /\ (c + 1 \in Calls /\ started(c + 1)) =>
              /\ held[c + 1] = held[c]
              /\ error[c + 1].kind # "shadow" =>
                   /\ appOp[c + 1].kind = (IF held[c].app = NoHandle THEN "build" ELSE "rebuild")
                   /\ cssOp[c + 1].kind = (IF held[c].css = NoHandle THEN "build" ELSE "rebuild")
                   /\ appOp[c + 1].on = held[c].app
                   /\ cssOp[c + 1].on = held[c].css
    /\ (pc[c] = "failed" /\ error[c].kind \in {"manifest", "persist"} /\ lastStarted(c)) =>
         /\ appCompiler = appOp[c].result /\ appCompiler # held[c].app
         /\ cssCompiler = cssOp[c].result /\ cssCompiler # held[c].css

\* a rebuild failed and the next compile called rebuild on the same handles
C19_Witness ==
  \E c \in Calls :
    /\ c + 1 \in Calls
    /\ pc[c] = "failed" /\ error[c].kind = "build"
    /\ held[c].app # NoHandle /\ appOp[c].kind = "rebuild"
    /\ appOp[c + 1].kind = "rebuild" /\ appOp[c + 1].on = held[c].app
    /\ cssOp[c + 1].kind = "rebuild" /\ cssOp[c + 1].on = held[c].css

\* a first compile failed with its application build done; that session is
\* live, no handle is stored and the next compile issued two full builds
C19_WitnessDropped ==
  \E c \in Calls :
    /\ c + 1 \in Calls
    /\ pc[c] = "failed" /\ appOp[c].st = "ok" /\ appOp[c].kind = "build"
    /\ <<"app", c>> \in live
    /\ held[c + 1].app = NoHandle /\ held[c + 1].css = NoHandle
    /\ appOp[c + 1].kind = "build" /\ cssOp[c + 1].kind = "build"

\* the path of the virtual module that carries the compiled CSS of a file
virtualPath(path) ==
  SubSeq(Append(dirname(path), basename(path) \o compiledCssQueryString),
         Len(cwd) + 1, Len(path))

hashOnly(name, path, local) == name = digest(path, local) /\ Len(name) = HashWidth

fullFormat(name, path, local) ==
  name = nameOf(path) \o <<"__", local, "__">> \o digest(path, local)

C14_WitnessDevelopment ==
  /\ mode = "development"
  /\ \E l1 \in loads : \E l2 \in loads :
       /\ l1.pass # l2.pass
       /\ l1.path = l2.path
       /\ l1.source = l2.source

\* C17: in a pass, what the secondary load hook returns for the virtual
\* module of a scoped-style file is the compiled CSS and the directory of
\* that file, as the primary load hook of the pass stored them; the
\* secondary resolve hook forwards the record it was given unmodified; a
\* record is served only under the virtual path of the file it was made for.
C17_RecordPassedThrough ==
  /\ \A r \in resolves : r.result.pluginData = r.args.pluginData
  /\ \A s \in served :
       ~ s.result.threw =>
         \E l \in loads :
           /\ l.pass = pass
           /\ s.path = virtualPath(l.path)
           /\ s.pluginData = l.result.pluginData
           /\ s.result.contents = compiledCssOf(mode, l.path, l.source)
           /\ s.result.resolveDir = dirname(l.path)
           /\ s.result.loader = "css"
  /\ \A s \in served : \A l \in loads :
       (l.pass = pass /\ s.pluginData = l.result.pluginData)
         => s.path = virtualPath(l.path)

C17_Witness ==
  /\ pass > 1
  /\ \E s1 \in served : \E s2 \in served :
       /\ s1.path = virtualPath(StyleA)
       /\ s2.path = virtualPath(StyleB)
       /\ ~ s1.result.threw
       /\ ~ s2.result.threw
       /\ s1.result.contents # s2.result.contents

\* C20: every invocation of the secondary load hook receives a defined
\* Pass-Through Record that a primary load hook of the same pass produced,
\* whichever module imported the virtual path.
C20_RecordAlwaysDefined ==
  \A s \in served :
    /\ s.pluginData.defined
    /\ \E l \in loads : l.pass = pass /\ l.result.pluginData = s.pluginData

C20_FailingLoad ==
  \E s \in served :
    /\ s.importer = AppModule
    /\ ~ s.pluginData.defined
    /\ s.result.threw

====
